---- MODULE Spec2Model ----
(***************************************************************************)
(* node-ble-peripheral: the peripheral lifecycle state machine             *)
(* (OSKBLEPeripheral, promise style, and BLEPeripheral, callback style)    *)
(* and the GATT characteristic (OSKBLECharacteristic).                     *)
(*                                                                         *)
(* The radio bindings are the external collaborator.  They are modelled    *)
(* as a mock: every command the peripheral issues is appended to cmds,     *)
(* and every event the bindings deliver is one action of the model.        *)
(* A peripheral object exists only with bindings attached (the             *)
(* OSKBLEPeripheral constructor throws without them), so in every state    *)
(* of the model this._bindings is set.                                     *)
(***************************************************************************)
EXTENDS Integers, Sequences, FiniteSets, TLC

VARIABLES
    class,          \* the class that was instantiated
    _state,         \* this._state
    _initialized,   \* this._initialized
    _platform,      \* this._platform
    _address,       \* this._address
    _rssi,          \* this._rssi
    _mtu,           \* this._mtu
    cmds,           \* the commands the bindings received, in order
    delivered,      \* the state the bindings reported last (None before the first)
    calls,          \* the calls delegated to the bindings, each with the fate of its result
    listeners,      \* once-listeners the commands registered: event -> call indices
    last,           \* the operation (call or bindings event) processed last
    out,            \* the application-facing events that operation emitted
    chr,            \* the characteristic: its options and how construction ended
    _updateValueCallback,   \* characteristic: this._updateValueCallback
    _maxValueSize,          \* characteristic: this._maxValueSize
    trace,          \* characteristic: handler invocations and responses of the last event
    prev,           \* characteristic: the name of the event processed before that one
    seen            \* characteristic: the subscription fields as the application's handler
                    \* found them when the last event invoked it (<< >>: none invoked)

pvars == <<class, _state, _initialized, _platform, _address, _rssi, _mtu,
           cmds, delivered, calls, listeners, last, out>>
cvars == <<chr, _updateValueCallback, _maxValueSize, trace, prev, seen>>
vars == <<class, _state, _initialized, _platform, _address, _rssi, _mtu,
          cmds, delivered, calls, listeners, last, out,
          chr, _updateValueCallback, _maxValueSize, trace, prev, seen>>

(***************************************************************************)
(* Bounds of the model.                                                    *)
(***************************************************************************)
\* at most this many calls are delegated to the bindings of one peripheral
MaxCalls == 2

(***************************************************************************)
(* Values.                                                                 *)
(***************************************************************************)
\* undefined / null
None == "None"
\* an absent error (null or undefined error argument)
NoError == "NoError"
\* Error("Could not start advertising, state is ... (not poweredOn)")
NotReady == "NotReady"
\* an error reported by the bindings on a confirmation event
TransportError == "TransportError"

OSKBLEState == {"poweredOn", "poweredOff", "unauthorized", "unsupported",
                "unknown", "resetting"}

\* payloads the bindings' events carry in this model
ErrorPayloads == {NoError, TransportError}
Platforms == {"linux"}
Addresses == {"aa:bb:cc:dd:ee:ff"}
ClientAddresses == {"11:22:33:44:55:66"}
Mtus == {23}
Rssis == {-50}

\* arguments the application passes in this model
Names == {"Dev"}
Uuid1 == <<"B", "9", "-", "4", "0">>
ServiceUuidLists == {<< >>, <<Uuid1>>}
ServiceLists == {<<[uuid |-> <<"b", "9", "4", "0">>, characteristics |-> << >>]>>}
\* "B9407F30-F5F8-466E-AFF9-25556B57FE6D"
Uuid16 == <<"B", "9", "4", "0", "7", "F", "3", "0", "-", "F", "5", "F", "8",
           "-", "4", "6", "6", "E", "-", "A", "F", "F", "9", "-", "2", "5",
           "5", "5", "6", "B", "5", "7", "F", "E", "6", "D">>
\* the iBeacon arguments at the ends and in the middle of their ranges
IBeaconInputs ==
    {[uuid |-> Uuid16, major |-> 100, minor |-> 200, measuredPower |-> -59],
     [uuid |-> Uuid16, major |-> 65535, minor |-> 0, measuredPower |-> -128],
     [uuid |-> Uuid1 \o <<"7">> \o <<"f">>, major |-> 258, minor |-> 65280,
      measuredPower |-> 127],
     [uuid |-> Uuid1, major |-> 0, minor |-> 65535, measuredPower |-> -1],
     [uuid |-> << >>, major |-> 256, minor |-> 1, measuredPower |-> 0]}
IBeaconArgs == {[uuid |-> Uuid1 \o <<"7">> \o <<"f">>, major |-> 100, minor |-> 200,
                 measuredPower |-> -59]}
EIRArgs == {[advertisementData |-> <<2, 1, 6>>, scanData |-> None]}

(***************************************************************************)
(* utils/uuid_util removeDashes: strips the separators; the normalized     *)
(* form is undashed and lowercase.                                         *)
(***************************************************************************)
toLowerCase(c) ==
    CASE c = "A" -> "a" [] c = "B" -> "b" [] c = "C" -> "c"
      [] c = "D" -> "d" [] c = "E" -> "e" [] c = "F" -> "f"
      [] OTHER -> c

isNotDash(c) == c # "-"

removeDashes(uuid) ==
    LET kept == SelectSeq(uuid, isNotDash)
    IN  [i \in 1..Len(kept) |-> toLowerCase(kept[i])]

(***************************************************************************)
(* Buffer                                                                  *)
(***************************************************************************)
\* the value of one hexadecimal digit
hexDigit(c) ==
    CASE c = "0" -> 0 [] c = "1" -> 1 [] c = "2" -> 2 [] c = "3" -> 3
      [] c = "4" -> 4 [] c = "5" -> 5 [] c = "6" -> 6 [] c = "7" -> 7
      [] c = "8" -> 8 [] c = "9" -> 9
      [] c \in {"a", "A"} -> 10 [] c \in {"b", "B"} -> 11
      [] c \in {"c", "C"} -> 12 [] c \in {"d", "D"} -> 13
      [] c \in {"e", "E"} -> 14 [] c \in {"f", "F"} -> 15

\* new Buffer(s, "hex"): one byte per pair of hexadecimal digits
bufferFromHex(s) ==
    [i \in 1..(Len(s) \div 2) |-> 16 * hexDigit(s[2 * i - 1]) + hexDigit(s[2 * i])]

\* the two bytes of value, low byte first
writeUInt16LE(value) == <<value % 256, (value \div 256) % 256>>

\* buf.writeUInt16BE(value): the two bytes written, high byte first
writeUInt16BE(value) == <<(value \div 256) % 256, value % 256>>

\* buf.writeInt8(value): the byte written, two's complement
writeInt8(value) == <<(value + 256) % 256>>

\* the payload startAdvertisingIBeacon builds
iBeaconData(uuid, major, minor, measuredPower) ==
    bufferFromHex(removeDashes(uuid)) \o writeUInt16BE(major) \o writeUInt16BE(minor)
        \o writeInt8(measuredPower)

(***************************************************************************)
(* The mock bindings and the record of the application's calls.            *)
(***************************************************************************)
\* one command received by the bindings
Cmd(op, a, b) == [op |-> op, a |-> a, b |-> b]

\* one call delegated to the bindings: its arguments, whether it passed a
\* callback, whether it was made before the first state-change event, the fate
\* of its asynchronous result (pending, resolved, rejected; returned when the
\* call has no result), the error and value the result carries, and the
\* number of times its callback ran
Call(op, args, cb, status, err) ==
    [op |-> op, args |-> args, cb |-> cb, first |-> (delivered = None),
     status |-> status, err |-> err, val |-> None, n |-> 0]

\* one operation processed: a call of the application with its immediate
\* outcome, or an event of the bindings with its payload
Op(kind, name, arg, status, err) ==
    [kind |-> kind, name |-> name, arg |-> arg, status |-> status, err |-> err]

CallOp(name, args, status, err) == Op("call", name, args, status, err)
EventOp(name, payload) == Op("event", name, payload, None, NoError)

\* one application-facing event
Ev(name, arg) == [ev |-> name, arg |-> arg]

EventNames == {"advertisingStart", "advertisingStop", "servicesSet", "rssiUpdate"}
NoListeners == [e \in EventNames |-> << >>]

AdvertisingOps == {"startAdvertising", "startAdvertisingIBeacon",
                   "startAdvertisingWithEIRData"}
UngatedOps == {"stopAdvertising", "setServices", "disconnect", "updateRssi"}

\* an optional value: absent (undefined), or present
undefined == << >>
some(x) == <<x>>

\* the characteristic before construction
NoCharacteristic == [status |-> "none"]

(***************************************************************************)
(* OSKBLEPeripheral                                                        *)
(***************************************************************************)
\* the fields after construction
PeripheralFields ==
    /\ _initialized = FALSE
    /\ _platform \in Platforms
    /\ _state = "unknown"
    /\ _address = "unknown"
    /\ _rssi = 0
    /\ _mtu = 20

\* the mock bindings and the application before the first operation
Untouched ==
    /\ cmds = << >>
    /\ delivered = None
    /\ calls = << >>
    /\ listeners = NoListeners
    /\ last = Op("none", "constructor", None, None, NoError)
    /\ out = << >>

CharacteristicAbsent ==
    /\ chr = NoCharacteristic
    /\ _updateValueCallback = undefined
    /\ _maxValueSize = undefined
    /\ trace = << >>
    /\ prev = None
    /\ seen = << >>

Init ==
    /\ class = "OSKBLEPeripheral"
    /\ PeripheralFields
    /\ Untouched
    /\ CharacteristicAbsent

\* a listener that initializes the bindings on every state change
initListener_everyTime(c, initialized) ==
    [cmds |-> Append(c, Cmd("init", None, None)), initialized |-> TRUE]

\* the internal stateChange listener the constructor registers: the init gate
initListener(c, initialized) ==
    IF ~initialized
        THEN [cmds |-> Append(c, Cmd("init", None, None)), initialized |-> TRUE]
        ELSE [cmds |-> c, initialized |-> initialized]

\* a precondition that refuses only a radio that is switched off
notPoweredOn_onlyPoweredOff(state) == state = "poweredOff"

\* a precondition that lets a peripheral with no reported state advertise
notPoweredOn_unknownPasses(state) == state \notin {"poweredOn", "unknown"}

\* the advertising precondition: this._state !== "poweredOn"
notPoweredOn(state) == state # "poweredOn"

\* an async method that threw: the promise is rejected, nothing else happened
rejects(op, args, err) ==
    /\ last' = CallOp(op, args, "rejected", err)
    /\ out' = << >>
    /\ UNCHANGED <<cmds, calls>>

\* an async method that called the bindings and returned: the command is with
\* the bindings and the promise is resolved as the method returns
delegates(op, args, cmd) ==
    /\ Len(calls) < MaxCalls
    /\ cmds' = Append(cmds, cmd)
    /\ calls' = Append(calls, Call(op, args, FALSE, "resolved", NoError))
    /\ last' = CallOp(op, args, "resolved", NoError)
    /\ out' = << >>

\* a startAdvertising that forwards the service UUIDs as the application wrote them
startAdvertising_rawUuids(name, serviceUuids) ==
    /\ class = "OSKBLEPeripheral"
    /\ IF notPoweredOn(_state)
         THEN rejects("startAdvertising", <<name, serviceUuids>>, NotReady)
         ELSE delegates("startAdvertising", <<name, serviceUuids>>,
                        Cmd("startAdvertising", name, serviceUuids))
    /\ UNCHANGED <<class, _state, _initialized, _platform, _address, _rssi, _mtu,
                   delivered, listeners>>
    /\ UNCHANGED cvars

startAdvertising(name, serviceUuids) ==
    /\ class = "OSKBLEPeripheral"
    /\ IF notPoweredOn(_state)
         THEN rejects("startAdvertising", <<name, serviceUuids>>, NotReady)
         ELSE LET undashedServiceUuids ==
                      [i \in 1..Len(serviceUuids) |-> removeDashes(serviceUuids[i])]
              IN  delegates("startAdvertising", <<name, serviceUuids>>,
                            Cmd("startAdvertising", name, undashedServiceUuids))
    /\ UNCHANGED <<class, _state, _initialized, _platform, _address, _rssi, _mtu,
                   delivered, listeners>>
    /\ UNCHANGED cvars

startAdvertisingIBeacon(uuid, major, minor, measuredPower) ==
    /\ class = "OSKBLEPeripheral"
    /\ IF notPoweredOn(_state)
         THEN rejects("startAdvertisingIBeacon", <<uuid, major, minor, measuredPower>>,
                      NotReady)
         ELSE delegates("startAdvertisingIBeacon", <<uuid, major, minor, measuredPower>>,
                        Cmd("startAdvertisingIBeacon",
                            iBeaconData(uuid, major, minor, measuredPower), None))
    /\ UNCHANGED <<class, _state, _initialized, _platform, _address, _rssi, _mtu,
                   delivered, listeners>>
    /\ UNCHANGED cvars

startAdvertisingWithEIRData(advertisementData, scanData) ==
    /\ class = "OSKBLEPeripheral"
    /\ IF notPoweredOn(_state)
         THEN rejects("startAdvertisingWithEIRData", <<advertisementData, scanData>>,
                      NotReady)
         ELSE delegates("startAdvertisingWithEIRData", <<advertisementData, scanData>>,
                        Cmd("startAdvertisingWithEIRData", advertisementData, scanData))
    /\ UNCHANGED <<class, _state, _initialized, _platform, _address, _rssi, _mtu,
                   delivered, listeners>>
    /\ UNCHANGED cvars

stopAdvertising ==
    /\ class = "OSKBLEPeripheral"
    /\ delegates("stopAdvertising", << >>, Cmd("stopAdvertising", None, None))
    /\ UNCHANGED <<class, _state, _initialized, _platform, _address, _rssi, _mtu,
                   delivered, listeners>>
    /\ UNCHANGED cvars

\* a setServices that is refused, like advertising, unless the radio is on
setServices_gated(services) ==
    /\ class = "OSKBLEPeripheral"
    /\ IF notPoweredOn(_state)
         THEN rejects("setServices", <<services>>, NotReady)
         ELSE delegates("setServices", <<services>>, Cmd("setServices", services, None))
    /\ UNCHANGED <<class, _state, _initialized, _platform, _address, _rssi, _mtu,
                   delivered, listeners>>
    /\ UNCHANGED cvars

setServices(services) ==
    /\ class = "OSKBLEPeripheral"
    /\ delegates("setServices", <<services>>, Cmd("setServices", services, None))
    /\ UNCHANGED <<class, _state, _initialized, _platform, _address, _rssi, _mtu,
                   delivered, listeners>>
    /\ UNCHANGED cvars

\* a disconnect that is refused until the bindings were initialized
disconnect_needsInit ==
    /\ class = "OSKBLEPeripheral"
    /\ IF ~_initialized
         THEN rejects("disconnect", << >>, NotReady)
         ELSE delegates("disconnect", << >>, Cmd("disconnect", None, None))
    /\ UNCHANGED <<class, _state, _initialized, _platform, _address, _rssi, _mtu,
                   delivered, listeners>>
    /\ UNCHANGED cvars

disconnect ==
    /\ class = "OSKBLEPeripheral"
    /\ delegates("disconnect", << >>, Cmd("disconnect", None, None))
    /\ UNCHANGED <<class, _state, _initialized, _platform, _address, _rssi, _mtu,
                   delivered, listeners>>
    /\ UNCHANGED cvars

updateRssi(rssi) ==
    /\ class = "OSKBLEPeripheral"
    /\ delegates("updateRssi", <<rssi>>, Cmd("updateRssi", rssi, None))
    /\ UNCHANGED <<class, _state, _initialized, _platform, _address, _rssi, _mtu,
                   delivered, listeners>>
    /\ UNCHANGED cvars

(***************************************************************************)
(* OSKBLEPeripheral: the handlers of the bindings' events.                 *)
(***************************************************************************)
_onPlatform(platform) ==
    /\ class = "OSKBLEPeripheral"
    /\ _platform' = platform
    /\ last' = EventOp("platform", platform)
    /\ out' = << >>
    /\ UNCHANGED <<class, _state, _initialized, _address, _rssi, _mtu,
                   cmds, delivered, calls, listeners>>
    /\ UNCHANGED cvars

\* a handler for which unsupported is final: later state changes are dropped
_onStateChange_unsupportedIsFinal(state) ==
    /\ class = "OSKBLEPeripheral"
    /\ _state' = IF _state = "unsupported" THEN _state ELSE state
    /\ LET gate == initListener(cmds, _initialized)
       IN  /\ cmds' = gate.cmds
           /\ _initialized' = gate.initialized
    /\ delivered' = _state'
    /\ last' = EventOp("stateChange", state)
    /\ out' = IF _state = "unsupported" THEN << >> ELSE <<Ev("stateChange", state)>>
    /\ UNCHANGED <<class, _platform, _address, _rssi, _mtu, calls, listeners>>
    /\ UNCHANGED cvars

\* this._state = state, then emit("stateChange", state): the internal
\* listener (the init gate) runs first, the application's listeners after it
_onStateChange(state) ==
    /\ class = "OSKBLEPeripheral"
    /\ _state' = state
    /\ LET gate == initListener(cmds, _initialized)
       IN  /\ cmds' = gate.cmds
           /\ _initialized' = gate.initialized
    /\ delivered' = state
    /\ last' = EventOp("stateChange", state)
    /\ out' = <<Ev("stateChange", state)>>
    /\ UNCHANGED <<class, _platform, _address, _rssi, _mtu, calls, listeners>>
    /\ UNCHANGED cvars

\* an address handler that re-emits the event like the other handlers
_onAddressChange_emits(address) ==
    /\ class = "OSKBLEPeripheral"
    /\ _address' = address
    /\ last' = EventOp("addressChange", address)
    /\ out' = <<Ev("addressChange", address)>>
    /\ UNCHANGED <<class, _state, _initialized, _platform, _rssi, _mtu,
                   cmds, delivered, calls, listeners>>
    /\ UNCHANGED cvars

_onAddressChange(address) ==
    /\ class = "OSKBLEPeripheral"
    /\ _address' = address
    /\ last' = EventOp("addressChange", address)
    /\ out' = << >>
    /\ UNCHANGED <<class, _state, _initialized, _platform, _rssi, _mtu,
                   cmds, delivered, calls, listeners>>
    /\ UNCHANGED cvars

\* an accept handler that takes the client's address for the peripheral's own
_onAccept_storesAddress(clientAddress) ==
    /\ class = "OSKBLEPeripheral"
    /\ _address' = clientAddress
    /\ last' = EventOp("accept", clientAddress)
    /\ out' = <<Ev("accept", clientAddress)>>
    /\ UNCHANGED <<class, _state, _initialized, _platform, _rssi, _mtu,
                   cmds, delivered, calls, listeners>>
    /\ UNCHANGED cvars

_onAccept(clientAddress) ==
    /\ class = "OSKBLEPeripheral"
    /\ last' = EventOp("accept", clientAddress)
    /\ out' = <<Ev("accept", clientAddress)>>
    /\ UNCHANGED <<class, _state, _initialized, _platform, _address, _rssi, _mtu,
                   cmds, delivered, calls, listeners>>
    /\ UNCHANGED cvars

_onMtuChange(mtu) ==
    /\ class = "OSKBLEPeripheral"
    /\ _mtu' = mtu
    /\ last' = EventOp("mtuChange", mtu)
    /\ out' = <<Ev("mtuChange", mtu)>>
    /\ UNCHANGED <<class, _state, _initialized, _platform, _address, _rssi,
                   cmds, delivered, calls, listeners>>
    /\ UNCHANGED cvars

\* a disconnect handler that also forgets the power state
_onDisconnect_resetsState(clientAddress) ==
    /\ class = "OSKBLEPeripheral"
    /\ _state' = "unknown"
    /\ last' = EventOp("disconnect", clientAddress)
    /\ out' = <<Ev("disconnect", clientAddress)>>
    /\ UNCHANGED <<class, _initialized, _platform, _address, _rssi, _mtu,
                   cmds, delivered, calls, listeners>>
    /\ UNCHANGED cvars

_onDisconnect(clientAddress) ==
    /\ class = "OSKBLEPeripheral"
    /\ last' = EventOp("disconnect", clientAddress)
    /\ out' = <<Ev("disconnect", clientAddress)>>
    /\ UNCHANGED <<class, _state, _initialized, _platform, _address, _rssi, _mtu,
                   cmds, delivered, calls, listeners>>
    /\ UNCHANGED cvars

\* a handler that emits the base event first and the error event after it
confirmationEvents_errorLast(name, error) ==
    <<Ev(name, error)>>
        \o (IF error # NoError THEN <<Ev(name \o "Error", error)>> ELSE << >>)

\* a handler that emits the error event for every confirmation
confirmationEvents_unconditional(name, error) ==
    <<Ev(name \o "Error", error), Ev(name, error)>>

\* if (error) emit(name + "Error", error); emit(name, error)
confirmationEvents(name, error) ==
    (IF error # NoError THEN <<Ev(name \o "Error", error)>> ELSE << >>)
        \o <<Ev(name, error)>>

_onAdvertisingStart(error) ==
    /\ class = "OSKBLEPeripheral"
    /\ last' = EventOp("advertisingStart", error)
    /\ out' = confirmationEvents("advertisingStart", error)
    /\ UNCHANGED <<class, _state, _initialized, _platform, _address, _rssi, _mtu,
                   cmds, delivered, calls, listeners>>
    /\ UNCHANGED cvars

_onAdvertisingStop ==
    /\ class = "OSKBLEPeripheral"
    /\ last' = EventOp("advertisingStop", None)
    /\ out' = <<Ev("advertisingStop", None)>>
    /\ UNCHANGED <<class, _state, _initialized, _platform, _address, _rssi, _mtu,
                   cmds, delivered, calls, listeners>>
    /\ UNCHANGED cvars

_onServicesSet(error) ==
    /\ class = "OSKBLEPeripheral"
    /\ last' = EventOp("servicesSet", error)
    /\ out' = confirmationEvents("servicesSet", error)
    /\ UNCHANGED <<class, _state, _initialized, _platform, _address, _rssi, _mtu,
                   cmds, delivered, calls, listeners>>
    /\ UNCHANGED cvars

_onRssiUpdate(rssi) ==
    /\ class = "OSKBLEPeripheral"
    /\ _rssi' = rssi
    /\ last' = EventOp("rssiUpdate", rssi)
    /\ out' = <<Ev("rssiUpdate", rssi)>>
    /\ UNCHANGED <<class, _state, _initialized, _platform, _address, _mtu,
                   cmds, delivered, calls, listeners>>
    /\ UNCHANGED cvars

Next ==
    \/ \E name \in Names, serviceUuids \in ServiceUuidLists :
           startAdvertising(name, serviceUuids)
    \/ \E b \in IBeaconArgs :
           startAdvertisingIBeacon(b.uuid, b.major, b.minor, b.measuredPower)
    \/ \E e \in EIRArgs : startAdvertisingWithEIRData(e.advertisementData, e.scanData)
    \/ stopAdvertising
    \/ \E services \in ServiceLists : setServices(services)
    \/ disconnect
    \/ \E rssi \in Rssis : updateRssi(rssi)
    \/ \E platform \in Platforms : _onPlatform(platform)
    \/ \E state \in OSKBLEState : _onStateChange(state)
    \/ \E address \in Addresses : _onAddressChange(address)
    \/ \E clientAddress \in ClientAddresses : _onAccept(clientAddress)
    \/ \E mtu \in Mtus : _onMtuChange(mtu)
    \/ \E clientAddress \in ClientAddresses : _onDisconnect(clientAddress)
    \/ \E error \in ErrorPayloads : _onAdvertisingStart(error)
    \/ _onAdvertisingStop
    \/ \E error \in ErrorPayloads : _onServicesSet(error)
    \/ \E rssi \in Rssis : _onRssiUpdate(rssi)

Spec == Init /\ [][Next]_vars

(***************************************************************************)
(* OSKBLEPeripheral advertising as an iBeacon, over the ranges of the      *)
(* arguments.                                                              *)
(***************************************************************************)
NextIBeacon ==
    \/ \E state \in OSKBLEState : _onStateChange(state)
    \/ \E b \in IBeaconInputs :
           startAdvertisingIBeacon(b.uuid, b.major, b.minor, b.measuredPower)

SpecIBeacon == Init /\ [][NextIBeacon]_vars

(***************************************************************************)
(* BLEPeripheral: the callback-style peripheral.  A command that is given  *)
(* a callback registers it as a once-listener of its confirmation event.   *)
(***************************************************************************)
\* the power states the bindings report to the callback-style peripheral
BLEStates == {"poweredOn", "poweredOff"}
\* what the application passes for the optional callback: a function or none
Callbacks == BOOLEAN

InitBLEPeripheral ==
    /\ class = "BLEPeripheral"
    /\ PeripheralFields
    /\ Untouched
    /\ CharacteristicAbsent

\* a refusal that has already registered the callback for advertisingStart
refuses_alreadyListening(op, args, callback, err) ==
    /\ IF callback
           THEN /\ Len(calls) < MaxCalls
                /\ calls' = Append(calls, [Call(op, args, TRUE, "rejected", err)
                                              EXCEPT !.n = 1])
                /\ listeners' = [listeners EXCEPT !["advertisingStart"] =
                                    Append(@, Len(calls) + 1)]
                /\ last' = CallOp(op, args, "refused", err)
           ELSE /\ calls' = calls
                /\ listeners' = listeners
                /\ last' = CallOp(op, args, "rejected", err)
    /\ out' = << >>
    /\ UNCHANGED cmds

\* state !== "poweredOn": callback(error) when a callback was passed, else
\* throw error; nothing is sent and no listener is registered
refuses(op, args, callback, err) ==
    /\ IF callback
           THEN /\ Len(calls) < MaxCalls
                /\ calls' = Append(calls, [Call(op, args, TRUE, "rejected", err)
                                              EXCEPT !.n = 1])
                /\ last' = CallOp(op, args, "refused", err)
           ELSE /\ calls' = calls
                /\ last' = CallOp(op, args, "rejected", err)
    /\ out' = << >>
    /\ UNCHANGED <<cmds, listeners>>

\* if (callback) this.once(event, callback); this._bindings.<command>(...)
waits(op, args, callback, event, cmd) ==
    /\ Len(calls) < MaxCalls
    /\ calls' = Append(calls, Call(op, args, callback,
                                   IF callback THEN "pending" ELSE "returned", NoError))
    /\ listeners' = IF callback
                        THEN [listeners EXCEPT ![event] = Append(@, Len(calls) + 1)]
                        ELSE listeners
    /\ cmds' = Append(cmds, cmd)
    /\ last' = CallOp(op, args, "returned", NoError)
    /\ out' = << >>

\* how often the call's callback is registered for the event
registered(event, i) ==
    Cardinality({k \in 1..Len(listeners[event]) : listeners[event][k] = i})

\* an emit that serves the waiters one per event, oldest first
completes_oldestOnly(event, status, err, val) ==
    /\ calls' = [i \in 1..Len(calls) |->
                    IF Len(listeners[event]) > 0 /\ listeners[event][1] = i
                        THEN [calls[i] EXCEPT !.status = status, !.err = err,
                                              !.val = val, !.n = @ + 1]
                        ELSE calls[i]]
    /\ listeners' = [listeners EXCEPT ![event] =
                        IF Len(@) > 0 THEN Tail(@) ELSE @]

\* emit(event, ...): every once-listener of the event runs with the payload
\* and is removed
completes(event, status, err, val) ==
    /\ calls' = [i \in 1..Len(calls) |->
                    IF registered(event, i) > 0
                        THEN [calls[i] EXCEPT !.status = status, !.err = err,
                                              !.val = val,
                                              !.n = @ + registered(event, i)]
                        ELSE calls[i]]
    /\ listeners' = [listeners EXCEPT ![event] = << >>]

BLEPeripheral_startAdvertising(name, serviceUuids, callback) ==
    /\ class = "BLEPeripheral"
    /\ IF notPoweredOn(_state)
         THEN refuses("startAdvertising", <<name, serviceUuids>>, callback, NotReady)
         ELSE LET undashedServiceUuids ==
                      [i \in 1..Len(serviceUuids) |-> removeDashes(serviceUuids[i])]
              IN  waits("startAdvertising", <<name, serviceUuids>>, callback,
                        "advertisingStart",
                        Cmd("startAdvertising", name, undashedServiceUuids))
    /\ UNCHANGED <<class, _state, _initialized, _platform, _address, _rssi, _mtu,
                   delivered>>
    /\ UNCHANGED cvars

BLEPeripheral_startAdvertisingIBeacon(uuid, major, minor, measuredPower, callback) ==
    /\ class = "BLEPeripheral"
    /\ IF notPoweredOn(_state)
         THEN refuses("startAdvertisingIBeacon", <<uuid, major, minor, measuredPower>>,
                      callback, NotReady)
         ELSE waits("startAdvertisingIBeacon", <<uuid, major, minor, measuredPower>>,
                    callback, "advertisingStart",
                    Cmd("startAdvertisingIBeacon",
                        iBeaconData(uuid, major, minor, measuredPower), None))
    /\ UNCHANGED <<class, _state, _initialized, _platform, _address, _rssi, _mtu,
                   delivered>>
    /\ UNCHANGED cvars

\* a function in the place of scanData is the callback
BLEPeripheral_startAdvertisingWithEIRData(advertisementData, scanData, callback) ==
    /\ class = "BLEPeripheral"
    /\ LET cb == IF scanData = "function" THEN TRUE ELSE callback
           scan == IF scanData = "function" THEN None ELSE scanData
       IN  IF notPoweredOn(_state)
               THEN refuses("startAdvertisingWithEIRData", <<advertisementData, scanData>>,
                            cb, NotReady)
               ELSE waits("startAdvertisingWithEIRData", <<advertisementData, scanData>>,
                          cb, "advertisingStart",
                          Cmd("startAdvertisingWithEIRData", advertisementData, scan))
    /\ UNCHANGED <<class, _state, _initialized, _platform, _address, _rssi, _mtu,
                   delivered>>
    /\ UNCHANGED cvars

BLEPeripheral_stopAdvertising(callback) ==
    /\ class = "BLEPeripheral"
    /\ waits("stopAdvertising", << >>, callback, "advertisingStop",
             Cmd("stopAdvertising", None, None))
    /\ UNCHANGED <<class, _state, _initialized, _platform, _address, _rssi, _mtu,
                   delivered>>
    /\ UNCHANGED cvars

BLEPeripheral_setServices(services, callback) ==
    /\ class = "BLEPeripheral"
    /\ waits("setServices", <<services>>, callback, "servicesSet",
             Cmd("setServices", services, None))
    /\ UNCHANGED <<class, _state, _initialized, _platform, _address, _rssi, _mtu,
                   delivered>>
    /\ UNCHANGED cvars

BLEPeripheral_disconnect ==
    /\ class = "BLEPeripheral"
    /\ waits("disconnect", << >>, FALSE, "advertisingStop", Cmd("disconnect", None, None))
    /\ UNCHANGED <<class, _state, _initialized, _platform, _address, _rssi, _mtu,
                   delivered>>
    /\ UNCHANGED cvars

BLEPeripheral_updateRssi(callback) ==
    /\ class = "BLEPeripheral"
    /\ waits("updateRssi", << >>, callback, "rssiUpdate", Cmd("updateRssi", None, None))
    /\ UNCHANGED <<class, _state, _initialized, _platform, _address, _rssi, _mtu,
                   delivered>>
    /\ UNCHANGED cvars

BLEPeripheral_onStateChange(state) ==
    /\ class = "BLEPeripheral"
    /\ _state' = state
    /\ LET gate == initListener(cmds, _initialized)
       IN  /\ cmds' = gate.cmds
           /\ _initialized' = gate.initialized
    /\ delivered' = state
    /\ last' = EventOp("stateChange", state)
    /\ out' = <<Ev("stateChange", state)>>
    /\ UNCHANGED <<class, _platform, _address, _rssi, _mtu, calls, listeners>>
    /\ UNCHANGED cvars

BLEPeripheral_onAccept(clientAddress) ==
    /\ class = "BLEPeripheral"
    /\ last' = EventOp("accept", clientAddress)
    /\ out' = <<Ev("accept", clientAddress)>>
    /\ UNCHANGED <<class, _state, _initialized, _platform, _address, _rssi, _mtu,
                   cmds, delivered, calls, listeners>>
    /\ UNCHANGED cvars

BLEPeripheral_onMtuChange(mtu) ==
    /\ class = "BLEPeripheral"
    /\ _mtu' = mtu
    /\ last' = EventOp("mtuChange", mtu)
    /\ out' = <<Ev("mtuChange", mtu)>>
    /\ UNCHANGED <<class, _state, _initialized, _platform, _address, _rssi,
                   cmds, delivered, calls, listeners>>
    /\ UNCHANGED cvars

BLEPeripheral_onDisconnect(clientAddress) ==
    /\ class = "BLEPeripheral"
    /\ last' = EventOp("disconnect", clientAddress)
    /\ out' = <<Ev("disconnect", clientAddress)>>
    /\ UNCHANGED <<class, _state, _initialized, _platform, _address, _rssi, _mtu,
                   cmds, delivered, calls, listeners>>
    /\ UNCHANGED cvars

BLEPeripheral_onAdvertisingStart(error) ==
    /\ class = "BLEPeripheral"
    /\ last' = EventOp("advertisingStart", error)
    /\ out' = confirmationEvents("advertisingStart", error)
    /\ completes("advertisingStart", IF error = NoError THEN "resolved" ELSE "rejected",
                 error, None)
    /\ UNCHANGED <<class, _state, _initialized, _platform, _address, _rssi, _mtu,
                   cmds, delivered>>
    /\ UNCHANGED cvars

BLEPeripheral_onAdvertisingStop ==
    /\ class = "BLEPeripheral"
    /\ last' = EventOp("advertisingStop", None)
    /\ out' = <<Ev("advertisingStop", None)>>
    /\ completes("advertisingStop", "resolved", NoError, None)
    /\ UNCHANGED <<class, _state, _initialized, _platform, _address, _rssi, _mtu,
                   cmds, delivered>>
    /\ UNCHANGED cvars

BLEPeripheral_onServicesSet(error) ==
    /\ class = "BLEPeripheral"
    /\ last' = EventOp("servicesSet", error)
    /\ out' = confirmationEvents("servicesSet", error)
    /\ completes("servicesSet", IF error = NoError THEN "resolved" ELSE "rejected",
                 error, None)
    /\ UNCHANGED <<class, _state, _initialized, _platform, _address, _rssi, _mtu,
                   cmds, delivered>>
    /\ UNCHANGED cvars

\* emits the value; the callback of updateRssi gets (null, rssi); _rssi is not set
BLEPeripheral_onRssiUpdate(rssi) ==
    /\ class = "BLEPeripheral"
    /\ last' = EventOp("rssiUpdate", rssi)
    /\ out' = <<Ev("rssiUpdate", rssi)>>
    /\ completes("rssiUpdate", "resolved", NoError, rssi)
    /\ UNCHANGED <<class, _state, _initialized, _platform, _address, _rssi, _mtu,
                   cmds, delivered>>
    /\ UNCHANGED cvars

NextBLEPeripheral ==
    \/ \E name \in Names, serviceUuids \in {<<Uuid1>>}, callback \in Callbacks :
           BLEPeripheral_startAdvertising(name, serviceUuids, callback)
    \/ \E b \in IBeaconArgs, callback \in {TRUE} :
           BLEPeripheral_startAdvertisingIBeacon(b.uuid, b.major, b.minor,
                                                 b.measuredPower, callback)
    \/ \E e \in EIRArgs, scanData \in {"function"} :
           BLEPeripheral_startAdvertisingWithEIRData(e.advertisementData, scanData, FALSE)
    \/ \E callback \in {TRUE} : BLEPeripheral_stopAdvertising(callback)
    \/ \E services \in ServiceLists, callback \in {TRUE} :
           BLEPeripheral_setServices(services, callback)
    \/ BLEPeripheral_disconnect
    \/ \E callback \in {TRUE} : BLEPeripheral_updateRssi(callback)
    \/ \E state \in BLEStates : BLEPeripheral_onStateChange(state)
    \/ \E clientAddress \in ClientAddresses : BLEPeripheral_onAccept(clientAddress)
    \/ \E mtu \in Mtus : BLEPeripheral_onMtuChange(mtu)
    \/ \E clientAddress \in ClientAddresses : BLEPeripheral_onDisconnect(clientAddress)
    \/ \E error \in ErrorPayloads : BLEPeripheral_onAdvertisingStart(error)
    \/ BLEPeripheral_onAdvertisingStop
    \/ \E error \in ErrorPayloads : BLEPeripheral_onServicesSet(error)
    \/ \E rssi \in Rssis : BLEPeripheral_onRssiUpdate(rssi)

SpecBLEPeripheral == InitBLEPeripheral /\ [][NextBLEPeripheral]_vars

(***************************************************************************)
(* OSKBLECharacteristic                                                    *)
(***************************************************************************)
\* at most this many entries in a properties list
MaxProperties == 2

OSKBLEProperty == {"read", "write", "writeWithoutResponse", "notify", "indicate"}

\* readonly RESULT_*: the initializers of the per-instance constants
RESULT_ATTR_NOT_LONG == 0
RESULT_INVALID_ATTRIBUTE_LENGTH == 7
RESULT_INVALID_OFFSET == 11
RESULT_SUCCESS == 13
RESULT_UNLIKELY_ERROR == 14

\* static readonly RESULT_*: the class-level constants
static_RESULT_ATTR_NOT_LONG == 0
static_RESULT_INVALID_ATTRIBUTE_LENGTH == 7
static_RESULT_INVALID_OFFSET == 11
static_RESULT_SUCCESS == 13
static_RESULT_UNLIKELY_ERROR == 14

\* per-instance constants with the ATT success code 0x00 in place of 0x0d
instanceResults_successZero ==
    [RESULT_ATTR_NOT_LONG |-> RESULT_ATTR_NOT_LONG,
     RESULT_INVALID_ATTRIBUTE_LENGTH |-> RESULT_INVALID_ATTRIBUTE_LENGTH,
     RESULT_INVALID_OFFSET |-> RESULT_INVALID_OFFSET,
     RESULT_SUCCESS |-> 0,
     RESULT_UNLIKELY_ERROR |-> RESULT_UNLIKELY_ERROR]

\* the per-instance constants of a new object
instanceResults ==
    [RESULT_ATTR_NOT_LONG |-> RESULT_ATTR_NOT_LONG,
     RESULT_INVALID_ATTRIBUTE_LENGTH |-> RESULT_INVALID_ATTRIBUTE_LENGTH,
     RESULT_INVALID_OFFSET |-> RESULT_INVALID_OFFSET,
     RESULT_SUCCESS |-> RESULT_SUCCESS,
     RESULT_UNLIKELY_ERROR |-> RESULT_UNLIKELY_ERROR]

\* the options the application constructs a characteristic with in this model
PropertyLists == UNION {[1..n -> OSKBLEProperty] : n \in 0..MaxProperties}
PropertyOptions == {undefined} \cup {some(p) : p \in PropertyLists}
ValueOptions == {undefined, some(<< >>), some(<<1, 2>>)}
CallbackNames == {"onReadRequestCallback", "onWriteRequestCallback",
                  "onSubscribeCallback", "onUnsubscribeCallback",
                  "onNotifyCallback", "onIndicateCallback"}
CallbackOptions == {{}, {"onReadRequestCallback", "onSubscribeCallback", "onNotifyCallback"},
                    {"onWriteRequestCallback", "onUnsubscribeCallback", "onIndicateCallback"},
                    CallbackNames}
CharacteristicOptions ==
    [uuid : {Uuid1}, properties : PropertyOptions, value : ValueOptions,
     callbacks : CallbackOptions]

\* what the central sends in this model
Offsets == {0}
WriteData == {<<7>>}
MaxValueSizes == {20, 64}
UpdateValueCallbacks == {"notifier1", "notifier2"}
RespondCallbacks == {"respond1"}
\* what an application handler passes to the respond callback before it returns
HandlerReplies == {<< >>, <<RESULT_SUCCESS>>}

\* options.x || []
orEmpty(option) == IF option = undefined THEN << >> ELSE option[1]

\* a check that looks at the first property only
valueNotReadOnly_firstOnly(value, properties) ==
    /\ value # undefined
    /\ (Len(properties) = 0 \/ properties[1] # "read")

\* this.value && (this.properties.length !== 1 || this.properties[0] !== "read")
valueNotReadOnly(value, properties) ==
    /\ value # undefined
    /\ (Len(properties) # 1 \/ properties[1] # "read")

InitCharacteristic ==
    /\ class = "OSKBLECharacteristic"
    /\ PeripheralFields
    /\ Untouched
    /\ CharacteristicAbsent

\* the name of the event the characteristic processed last (None before the first)
lastEvent == IF trace = << >> THEN None ELSE trace[1].name

\* what the application's handler of this name finds in the subscription fields
\* when it is invoked with them holding notifier and size; << >> when no such
\* handler is registered
handlerSees(name, notifier, size) ==
    IF name \in chr.callbacks THEN <<notifier, size>> ELSE << >>

\* new OSKBLECharacteristic(options): the fields of the object, or the error
\* the constructor threw
constructCharacteristic(options) ==
    /\ class = "OSKBLECharacteristic"
    /\ chr.status = "none"
    /\ LET properties == orEmpty(options.properties)
       IN  chr' = [status |-> IF valueNotReadOnly(options.value, properties)
                                  THEN "ConfigurationError" ELSE "ok",
                   uuid |-> removeDashes(options.uuid),
                   properties |-> properties,
                   secure |-> << >>,
                   value |-> options.value,
                   descriptors |-> << >>,
                   callbacks |-> IF valueNotReadOnly(options.value, properties)
                                     THEN {} ELSE options.callbacks,
                   options |-> options,
                   RESULT |-> instanceResults]
    /\ trace' = << >>
    /\ prev' = None
    /\ seen' = << >>
    /\ UNCHANGED <<_updateValueCallback, _maxValueSize>>
    /\ UNCHANGED pvars

\* one entry of trace: the core invoked an application callback
Invoked(name, args) == [what |-> "invoke", name |-> name, args |-> args]
\* one entry of trace: the respond callback of a request was called
Responded(by, callback, result, data) ==
    [what |-> "respond", name |-> callback, args |-> <<by, result, data>>]

\* the responses an application handler gave through the callback it was passed
handlerReplies(callback, replies) ==
    [i \in 1..Len(replies) |-> Responded("handler", callback, replies[i], undefined)]

_onIndicate ==
    /\ class = "OSKBLECharacteristic"
    /\ chr.status = "ok"
    /\ prev' = lastEvent
    /\ seen' = handlerSees("onIndicateCallback", _updateValueCallback, _maxValueSize)
    /\ trace' = <<[what |-> "event", name |-> "indicate", args |-> << >>]>>
                  \o (IF "onIndicateCallback" \in chr.callbacks
                          THEN <<Invoked("onIndicateCallback", << >>)>> ELSE << >>)
    /\ UNCHANGED <<chr, _updateValueCallback, _maxValueSize>>
    /\ UNCHANGED pvars

\* a notify handler that installs a notifier of its own
_onNotify_setsNotifier ==
    /\ class = "OSKBLECharacteristic"
    /\ chr.status = "ok"
    /\ _updateValueCallback' = some("notifier1")
    /\ prev' = lastEvent
    /\ seen' = handlerSees("onNotifyCallback", some("notifier1"), _maxValueSize)
    /\ trace' = <<[what |-> "event", name |-> "notify", args |-> << >>]>>
                  \o (IF "onNotifyCallback" \in chr.callbacks
                          THEN <<Invoked("onNotifyCallback", << >>)>> ELSE << >>)
    /\ UNCHANGED <<chr, _maxValueSize>>
    /\ UNCHANGED pvars

_onNotify ==
    /\ class = "OSKBLECharacteristic"
    /\ chr.status = "ok"
    /\ prev' = lastEvent
    /\ seen' = handlerSees("onNotifyCallback", _updateValueCallback, _maxValueSize)
    /\ trace' = <<[what |-> "event", name |-> "notify", args |-> << >>]>>
                  \o (IF "onNotifyCallback" \in chr.callbacks
                          THEN <<Invoked("onNotifyCallback", << >>)>> ELSE << >>)
    /\ UNCHANGED <<chr, _updateValueCallback, _maxValueSize>>
    /\ UNCHANGED pvars

\* a read handler that stays silent when the application registered no handler
_onReadRequest_silent(offset, callback, replies) ==
    /\ class = "OSKBLECharacteristic"
    /\ chr.status = "ok"
    /\ prev' = lastEvent
    /\ seen' = handlerSees("onReadRequestCallback", _updateValueCallback, _maxValueSize)
    /\ trace' = <<[what |-> "event", name |-> "readRequest", args |-> <<offset, callback>>]>>
                  \o (IF "onReadRequestCallback" \in chr.callbacks
                          THEN <<Invoked("onReadRequestCallback", <<offset, callback>>)>>
                                   \o handlerReplies(callback, replies)
                          ELSE << >>)
    /\ UNCHANGED <<chr, _updateValueCallback, _maxValueSize>>
    /\ UNCHANGED pvars

_onReadRequest(offset, callback, replies) ==
    /\ class = "OSKBLECharacteristic"
    /\ chr.status = "ok"
    /\ prev' = lastEvent
    /\ seen' = handlerSees("onReadRequestCallback", _updateValueCallback, _maxValueSize)
    /\ trace' = <<[what |-> "event", name |-> "readRequest", args |-> <<offset, callback>>]>>
                  \o (IF "onReadRequestCallback" \in chr.callbacks
                          THEN <<Invoked("onReadRequestCallback", <<offset, callback>>)>>
                                   \o handlerReplies(callback, replies)
                          ELSE <<Responded("core", callback, chr.RESULT.RESULT_UNLIKELY_ERROR, undefined)>>)
    /\ UNCHANGED <<chr, _updateValueCallback, _maxValueSize>>
    /\ UNCHANGED pvars

\* a subscribe handler that invokes the application before it records anything
_onSubscribe_handlerFirst(maxValueSize, updateValueCallback) ==
    /\ class = "OSKBLECharacteristic"
    /\ chr.status = "ok"
    /\ _updateValueCallback' = some(updateValueCallback)
    /\ _maxValueSize' = some(maxValueSize)
    /\ prev' = lastEvent
    /\ seen' = handlerSees("onSubscribeCallback", _updateValueCallback, _maxValueSize)
    /\ trace' = <<[what |-> "event", name |-> "subscribe",
                   args |-> <<maxValueSize, updateValueCallback>>]>>
                  \o (IF "onSubscribeCallback" \in chr.callbacks
                          THEN <<Invoked("onSubscribeCallback",
                                         <<maxValueSize, updateValueCallback>>)>>
                          ELSE << >>)
    /\ UNCHANGED chr
    /\ UNCHANGED pvars

\* a subscribe handler that invokes the application after it recorded the
\* notifier and before it records the size
_onSubscribe_handlerBetween(maxValueSize, updateValueCallback) ==
    /\ class = "OSKBLECharacteristic"
    /\ chr.status = "ok"
    /\ _updateValueCallback' = some(updateValueCallback)
    /\ _maxValueSize' = some(maxValueSize)
    /\ prev' = lastEvent
    /\ seen' = handlerSees("onSubscribeCallback", some(updateValueCallback),
                         _maxValueSize)
    /\ trace' = <<[what |-> "event", name |-> "subscribe",
                   args |-> <<maxValueSize, updateValueCallback>>]>>
                  \o (IF "onSubscribeCallback" \in chr.callbacks
                          THEN <<Invoked("onSubscribeCallback",
                                         <<maxValueSize, updateValueCallback>>)>>
                          ELSE << >>)
    /\ UNCHANGED chr
    /\ UNCHANGED pvars

_onSubscribe(maxValueSize, updateValueCallback) ==
    /\ class = "OSKBLECharacteristic"
    /\ chr.status = "ok"
    /\ _updateValueCallback' = some(updateValueCallback)
    /\ _maxValueSize' = some(maxValueSize)
    /\ prev' = lastEvent
    /\ seen' = handlerSees("onSubscribeCallback", some(updateValueCallback), some(maxValueSize))
    /\ trace' = <<[what |-> "event", name |-> "subscribe",
                   args |-> <<maxValueSize, updateValueCallback>>]>>
                  \o (IF "onSubscribeCallback" \in chr.callbacks
                          THEN <<Invoked("onSubscribeCallback",
                                         <<maxValueSize, updateValueCallback>>)>>
                          ELSE << >>)
    /\ UNCHANGED chr
    /\ UNCHANGED pvars

\* an unsubscribe handler that leaves the application alone when there is no
\* subscription to end
_onUnsubscribe_onlyWhenSubscribed ==
    /\ class = "OSKBLECharacteristic"
    /\ chr.status = "ok"
    /\ _updateValueCallback' = undefined
    /\ _maxValueSize' = undefined
    /\ prev' = lastEvent
    /\ seen' = (IF _updateValueCallback = undefined THEN << >>
                ELSE handlerSees("onUnsubscribeCallback", undefined, undefined))
    /\ trace' = <<[what |-> "event", name |-> "unsubscribe", args |-> << >>]>>
                  \o (IF "onUnsubscribeCallback" \in chr.callbacks /\ _updateValueCallback # undefined
                          THEN <<Invoked("onUnsubscribeCallback", << >>)>> ELSE << >>)
    /\ UNCHANGED chr
    /\ UNCHANGED pvars

\* an unsubscribe handler that forgets the notifier but keeps the size
_onUnsubscribe_keepsSize ==
    /\ class = "OSKBLECharacteristic"
    /\ chr.status = "ok"
    /\ _updateValueCallback' = undefined
    /\ prev' = lastEvent
    /\ seen' = handlerSees("onUnsubscribeCallback", undefined, _maxValueSize)
    /\ trace' = <<[what |-> "event", name |-> "unsubscribe", args |-> << >>]>>
                  \o (IF "onUnsubscribeCallback" \in chr.callbacks
                          THEN <<Invoked("onUnsubscribeCallback", << >>)>> ELSE << >>)
    /\ UNCHANGED <<chr, _maxValueSize>>
    /\ UNCHANGED pvars

_onUnsubscribe ==
    /\ class = "OSKBLECharacteristic"
    /\ chr.status = "ok"
    /\ _updateValueCallback' = undefined
    /\ _maxValueSize' = undefined
    /\ prev' = lastEvent
    /\ seen' = handlerSees("onUnsubscribeCallback", undefined, undefined)
    /\ trace' = <<[what |-> "event", name |-> "unsubscribe", args |-> << >>]>>
                  \o (IF "onUnsubscribeCallback" \in chr.callbacks
                          THEN <<Invoked("onUnsubscribeCallback", << >>)>> ELSE << >>)
    /\ UNCHANGED chr
    /\ UNCHANGED pvars

\* a write handler that answers by itself after delegating to the application
_onWriteRequest_alsoResponds(data, offset, withoutResponse, callback, replies) ==
    /\ class = "OSKBLECharacteristic"
    /\ chr.status = "ok"
    /\ prev' = lastEvent
    /\ seen' = handlerSees("onWriteRequestCallback", _updateValueCallback, _maxValueSize)
    /\ trace' = <<[what |-> "event", name |-> "writeRequest",
                   args |-> <<data, offset, withoutResponse, callback>>]>>
                  \o (IF "onWriteRequestCallback" \in chr.callbacks
                          THEN <<Invoked("onWriteRequestCallback",
                                         <<data, offset, withoutResponse, callback>>)>>
                                   \o handlerReplies(callback, replies)
                          ELSE << >>)
                  \o <<Responded("core", callback, chr.RESULT.RESULT_UNLIKELY_ERROR, undefined)>>
    /\ UNCHANGED <<chr, _updateValueCallback, _maxValueSize>>
    /\ UNCHANGED pvars

_onWriteRequest(data, offset, withoutResponse, callback, replies) ==
    /\ class = "OSKBLECharacteristic"
    /\ chr.status = "ok"
    /\ prev' = lastEvent
    /\ seen' = handlerSees("onWriteRequestCallback", _updateValueCallback, _maxValueSize)
    /\ trace' = <<[what |-> "event", name |-> "writeRequest",
                   args |-> <<data, offset, withoutResponse, callback>>]>>
                  \o (IF "onWriteRequestCallback" \in chr.callbacks
                          THEN <<Invoked("onWriteRequestCallback",
                                         <<data, offset, withoutResponse, callback>>)>>
                                   \o handlerReplies(callback, replies)
                          ELSE <<Responded("core", callback, chr.RESULT.RESULT_UNLIKELY_ERROR, undefined)>>)
    /\ UNCHANGED <<chr, _updateValueCallback, _maxValueSize>>
    /\ UNCHANGED pvars

NextCharacteristic ==
    \/ \E options \in CharacteristicOptions : constructCharacteristic(options)
    \/ _onIndicate
    \/ _onNotify
    \/ \E offset \in Offsets, callback \in RespondCallbacks, replies \in HandlerReplies :
           _onReadRequest(offset, callback, replies)
    \/ \E maxValueSize \in MaxValueSizes, updateValueCallback \in UpdateValueCallbacks :
           _onSubscribe(maxValueSize, updateValueCallback)
    \/ _onUnsubscribe
    \/ \E data \in WriteData, offset \in Offsets, withoutResponse \in BOOLEAN,
          callback \in RespondCallbacks, replies \in HandlerReplies :
           _onWriteRequest(data, offset, withoutResponse, callback, replies)

SpecCharacteristic == InitCharacteristic /\ [][NextCharacteristic]_vars

(***************************************************************************)
(* OSKBLEPeripheral with bindings that deliver a state-change event        *)
(* synchronously from inside init, before init returns.                    *)
(***************************************************************************)
\* _onStateChange(state) while the peripheral is not initialized and the
\* bindings' init delivers stateChange(inner) before it returns: the outer
\* handler stores state and emits; the init listener calls init; inside init
\* the inner handler stores inner and emits; the init listener runs again
\* with _initialized as the outer run left it, then the application's
\* listeners see the inner event; init returns, the outer listener sets
\* _initialized, and the application's listeners see the outer event
_onStateChangeDuringInit(state, inner) ==
    /\ class = "OSKBLEPeripheral"
    /\ ~_initialized
    /\ LET innerGate == initListener(Append(cmds, Cmd("init", None, None)), _initialized)
       IN  /\ cmds' = innerGate.cmds
           /\ _initialized' = TRUE
    /\ _state' = inner
    /\ delivered' = inner
    /\ last' = EventOp("stateChange", state)
    /\ out' = <<Ev("stateChange", inner), Ev("stateChange", state)>>
    /\ UNCHANGED <<class, _platform, _address, _rssi, _mtu, calls, listeners>>
    /\ UNCHANGED cvars

NextReentrant ==
    \/ \E state \in OSKBLEState : _onStateChange(state)
    \/ \E state \in OSKBLEState, inner \in OSKBLEState :
           _onStateChangeDuringInit(state, inner)
    \/ \E name \in Names, serviceUuids \in ServiceUuidLists :
           startAdvertising(name, serviceUuids)
    \/ stopAdvertising

SpecReentrant == Init /\ [][NextReentrant]_vars

(***************************************************************************)
(* OSKBLEPeripheral with an application listener on stateChange that       *)
(* starts advertising as soon as it is told the state.                     *)
(***************************************************************************)
\* a stateChange emit whose application listener runs before the init gate
emitStateChange_applicationFirst(c, initialized, reaction) ==
    initListener(c \o reaction, initialized)

\* emit("stateChange", state): the listeners run in the order of their
\* registration, the init gate of the constructor first; reaction holds the
\* commands the application's listener sends
emitStateChange(c, initialized, reaction) ==
    LET gate == initListener(c, initialized)
    IN  [cmds |-> gate.cmds \o reaction, initialized |-> gate.initialized]

\* _onStateChange(state) with an application listener that calls
\* startAdvertising(name, serviceUuids) from inside the emit
_onStateChangeReacting(state, name, serviceUuids) ==
    /\ class = "OSKBLEPeripheral"
    /\ Len(calls) < MaxCalls
    /\ _state' = state
    /\ LET undashedServiceUuids ==
               [i \in 1..Len(serviceUuids) |-> removeDashes(serviceUuids[i])]
           reaction == IF notPoweredOn(state)
                           THEN << >>
                           ELSE <<Cmd("startAdvertising", name, undashedServiceUuids)>>
           done == emitStateChange(cmds, _initialized, reaction)
       IN  /\ cmds' = done.cmds
           /\ _initialized' = done.initialized
    /\ calls' = IF notPoweredOn(state)
                    THEN calls
                    ELSE Append(calls,
                                [Call("startAdvertising", <<name, serviceUuids>>, FALSE,
                                      "resolved", NoError) EXCEPT !.first = FALSE])
    /\ delivered' = state
    /\ last' = EventOp("stateChange", state)
    /\ out' = <<Ev("stateChange", state)>>
    /\ UNCHANGED <<class, _platform, _address, _rssi, _mtu, listeners>>
    /\ UNCHANGED cvars

NextReacting ==
    \/ \E state \in OSKBLEState : _onStateChange(state)
    \/ \E state \in OSKBLEState, name \in Names, serviceUuids \in ServiceUuidLists :
           _onStateChangeReacting(state, name, serviceUuids)
    \/ \E name \in Names, serviceUuids \in ServiceUuidLists :
           startAdvertising(name, serviceUuids)
    \/ \E b \in IBeaconArgs :
           startAdvertisingIBeacon(b.uuid, b.major, b.minor, b.measuredPower)
    \/ \E e \in EIRArgs : startAdvertisingWithEIRData(e.advertisementData, e.scanData)
    \/ stopAdvertising

SpecReacting == Init /\ [][NextReacting]_vars

(***************************************************************************)
(* UUIDs: the spellings of one UUID on their way through the service and   *)
(* characteristic constructors and the advertising commands.               *)
(***************************************************************************)
\* one UUID, written dashed and undashed, in upper and in lower case
UuidSpellings == {Uuid1, <<"b", "9", "-", "4", "0">>, <<"B", "9", "4", "0">>,
                  <<"b", "9", "4", "0">>}
UuidLists == {<<u>> : u \in UuidSpellings} \cup {<<Uuid1, <<"b", "9", "4", "0">>>>}

\* new OSKBLEService(options)
OSKBLEService(options) ==
    [uuid |-> removeDashes(options.uuid),
     characteristics |-> orEmpty(options.characteristics)]

ServiceInputs ==
    {<<OSKBLEService([uuid |-> u, characteristics |-> undefined])>> : u \in UuidSpellings}
UuidCharacteristicOptions ==
    [uuid : UuidSpellings, properties : {undefined}, value : {undefined},
     callbacks : {{}}]

InitUuid ==
    /\ class \in {"OSKBLEPeripheral", "OSKBLECharacteristic"}
    /\ PeripheralFields
    /\ Untouched
    /\ CharacteristicAbsent

NextUuid ==
    \/ \E state \in OSKBLEState : _onStateChange(state)
    \/ \E name \in Names, serviceUuids \in UuidLists : startAdvertising(name, serviceUuids)
    \/ \E uuid \in UuidSpellings : startAdvertisingIBeacon(uuid, 1, 2, -59)
    \/ \E services \in ServiceInputs : setServices(services)
    \/ \E options \in UuidCharacteristicOptions : constructCharacteristic(options)

SpecUuid == InitUuid /\ [][NextUuid]_vars

(***************************************************************************)
(* Properties of the peripheral.                                           *)
(***************************************************************************)
\* the step is a call of the application
CallStep(ops) == last'.kind = "call" /\ last'.name \in ops

\* the step is an event of the bindings
EventStep(names) == last'.kind = "event" /\ last'.name \in names

\* the peripheral's fields
fields == <<_state, _initialized, _address, _rssi, _mtu>>

\* C1: in every power state other than poweredOn, a call of startAdvertising,
\* startAdvertisingIBeacon or startAdvertisingWithEIRData fails with NotReady,
\* sends the bindings no command and leaves state, initialized, address, rssi
\* and mtu as they were.
C1_NotReadyRejects ==
    [][(CallStep(AdvertisingOps) /\ _state \in OSKBLEState \ {"poweredOn"})
          => /\ last'.status = "rejected"
             /\ last'.err = NotReady
             /\ cmds' = cmds
             /\ calls' = calls
             /\ fields' = fields]_vars

\* C1, its case: an advertising call was refused while the radio was resetting
\* and address, rssi and mtu had already been reported
C1_Witness ==
    /\ last.kind = "call"
    /\ last.name = "startAdvertisingIBeacon"
    /\ last.status = "rejected"
    /\ _state = "resetting"
    /\ _address # "unknown"
    /\ _mtu # 20
    /\ _rssi # 0
    /\ Len(cmds) > 1

\* the number of init commands the bindings received
initCount == Cardinality({i \in 1..Len(cmds) : cmds[i].op = "init"})

\* C2: over any sequence of state-change events the bindings receive init
\* exactly once, at the first state-change event; initialized turns true at
\* that event and is never false again; every later state-change event issues
\* no command and changes nothing but state.
C2_InitOnce ==
    /\ [](initCount = IF delivered = None THEN 0 ELSE 1)
    /\ [](_initialized <=> delivered # None)
    /\ [][EventStep({"stateChange"})
             => IF delivered = None
                    THEN /\ cmds' = Append(cmds, Cmd("init", None, None))
                         /\ ~_initialized /\ _initialized'
                    ELSE /\ cmds' = cmds
                         /\ <<_initialized, _address, _rssi, _mtu, calls>>'
                                = <<_initialized, _address, _rssi, _mtu, calls>>]_vars
    /\ [][_initialized => _initialized']_vars

\* C2, its case: a third command reached the bindings after the state changed
\* more than once (the state now differs from poweredOn, in which the
\* advertising command was accepted), and init is among them once
C2_Witness ==
    /\ last.kind = "event"
    /\ last.name = "stateChange"
    /\ last.arg = "poweredOff"
    /\ Len(cmds) = 3
    /\ cmds[2].op = "init"
    /\ cmds[3].op = "startAdvertising"
    /\ _initialized

\* the calls of the given commands whose result is still pending
pendingCalls(ops) ==
    {i \in 1..Len(calls) : calls[i].op \in ops /\ calls[i].status = "pending"}

\* the step delegated a call of one of the given commands to the bindings
DelegatedStep(ops) ==
    /\ CallStep(ops)
    /\ last'.status # "rejected"
    /\ Len(calls') = Len(calls) + 1

\* the operation processed last was a call of one of the given commands that
\* was delegated to the bindings: no event has been delivered since
JustDelegated(ops) ==
    /\ last.kind = "call"
    /\ last.name \in ops
    /\ last.status # "rejected"
    /\ Len(calls) > 0

\* C3: an advertising-start command accepted in poweredOn leaves its result
\* pending when it returns; the result stays pending until the bindings deliver
\* advertisingStart, and is then resolved when the event carries no error and
\* rejected when it carries one.
C3_PendingUntilConfirmed ==
    /\ [][DelegatedStep(AdvertisingOps) => calls'[Len(calls')].status = "pending"]_vars
    /\ [][\A i \in pendingCalls(AdvertisingOps) :
              IF EventStep({"advertisingStart"})
                  THEN calls'[i].status
                           = IF last'.arg = NoError THEN "resolved" ELSE "rejected"
                  ELSE calls'[i].status = "pending"]_vars

\* C4: stopAdvertising and setServices leave their result pending when they
\* return, and the result is completed only by the matching confirmation
\* event (advertisingStop, servicesSet): without it the result stays pending.
C4_CompletesOnConfirmation ==
    /\ [][DelegatedStep({"stopAdvertising", "setServices"})
             => calls'[Len(calls')].status = "pending"]_vars
    /\ [][\A i \in pendingCalls({"stopAdvertising"}) :
              ~EventStep({"advertisingStop"}) => calls'[i].status = "pending"]_vars
    /\ [][\A i \in pendingCalls({"setServices"}) :
              ~EventStep({"servicesSet"}) => calls'[i].status = "pending"]_vars

\* C5: when the bindings confirm advertisingStart (servicesSet) with an error
\* while a startAdvertising* (setServices) command awaits its confirmation, the
\* caller's result is rejected with that error, and the error is also emitted
\* as advertisingStartError (servicesSetError).
C5_ErrorReachesCaller ==
    /\ [][(JustDelegated(AdvertisingOps) /\ EventStep({"advertisingStart"})
              /\ last'.arg # NoError)
             => /\ calls'[Len(calls')].status = "rejected"
                /\ calls'[Len(calls')].err = last'.arg
                /\ \E k \in 1..Len(out') : out'[k] = Ev("advertisingStartError", last'.arg)]_vars
    /\ [][(JustDelegated({"setServices"}) /\ EventStep({"servicesSet"})
              /\ last'.arg # NoError)
             => /\ calls'[Len(calls')].status = "rejected"
                /\ calls'[Len(calls')].err = last'.arg
                /\ \E k \in 1..Len(out') : out'[k] = Ev("servicesSetError", last'.arg)]_vars

\* C6: in each of the six power states a call of stopAdvertising, disconnect,
\* setServices or updateRssi sends the bindings exactly one command, the one
\* of its name, and does not fail; setServices hands the service list over
\* unchanged (and updateRssi its value).
C6_UngatedDelegate ==
    [][CallStep(UngatedOps)
          => /\ last'.status # "rejected"
             /\ last'.err = NoError
             /\ Len(cmds') = Len(cmds) + 1
             /\ \A i \in 1..Len(cmds) : cmds'[i].op = cmds[i].op
             /\ cmds'[Len(cmds')].op = last'.name
             /\ (last'.name \in {"setServices", "updateRssi"}
                    => cmds'[Len(cmds')].a = last'.arg[1])
             /\ fields' = fields]_vars

\* C6, its case: setServices was called and delegated while the radio was
\* unauthorized (a state in which advertising is refused)
C6_Witness ==
    /\ last.kind = "call"
    /\ last.name = "setServices"
    /\ last.status = "resolved"
    /\ _state = "unauthorized"
    /\ cmds[Len(cmds)].op = "setServices"
    /\ cmds[Len(cmds)].a \in ServiceLists

\* C7: the state field changes only when a state-change event is processed and
\* then equals the state the event carries; no command and no other event of
\* the bindings modifies it.
C7_StateOnlyByStateChange ==
    /\ [](_state = IF delivered = None THEN "unknown" ELSE delivered)
    /\ [][EventStep({"stateChange"}) => _state' = last'.arg]_vars
    /\ [][~EventStep({"stateChange"}) => _state' = _state]_vars

\* C7, its case: the state was reported as poweredOff, and a command and then
\* another event of the bindings were processed since
C7_Witness ==
    /\ _state = "poweredOff"
    /\ last.kind = "event"
    /\ last.name = "disconnect"
    /\ Len(calls) = 2
    /\ _mtu = 23

\* C8: an advertising command is accepted exactly when the state-change event
\* processed most recently carried poweredOn, and is rejected with NotReady
\* otherwise, also when no state-change event was processed yet; so the
\* command is accepted again once a later state change reports poweredOn.
C8_AcceptedIffPoweredOn ==
    [][CallStep(AdvertisingOps)
          => IF delivered = "poweredOn"
                 THEN /\ last'.status # "rejected"
                      /\ Len(cmds') = Len(cmds) + 1
                      /\ cmds'[Len(cmds')].op = last'.name
                 ELSE /\ last'.status = "rejected"
                      /\ last'.err = NotReady
                      /\ cmds' = cmds]_vars

\* C8, its case: an advertising command is refused although an earlier one was
\* accepted: poweredOn was reported once, but not by the latest state change
C8_Witness ==
    /\ last.kind = "call"
    /\ last.name = "startAdvertising"
    /\ last.status = "rejected"
    /\ delivered = "poweredOff"
    /\ \E i \in 1..Len(cmds) : cmds[i].op = "startAdvertising"

\* C8, its other case: an advertising command is accepted after poweredOn was
\* reported, with a command sent before the first state change already there
C8_WitnessAccepted ==
    /\ last.kind = "call"
    /\ last.name \in AdvertisingOps
    /\ last.status = "resolved"
    /\ delivered = "poweredOn"
    /\ calls[1].first

\* the application called setServices and then startAdvertising(name, []),
\* both after a state-change event, and nothing else
EndToEndCalls ==
    /\ Len(calls) = 2
    /\ calls[1].op = "setServices"
    /\ ~calls[1].first
    /\ calls[2].op = "startAdvertising"
    /\ calls[2].args[2] = << >>

\* C9: after a state change to poweredOn, setServices and then
\* startAdvertising(name, []), the bindings have received exactly init,
\* setServices and startAdvertising in that order; and when the bindings then
\* confirm advertisingStart without error, the peripheral emits advertisingStart
\* with no error and no advertisingStartError.
C9_EndToEnd ==
    EndToEndCalls
        => /\ Len(cmds) = 3
           /\ cmds[1].op = "init"
           /\ cmds[2].op = "setServices"
           /\ cmds[2].a = calls[1].args[1]
           /\ cmds[3].op = "startAdvertising"
           /\ cmds[3].a = calls[2].args[1]
           /\ cmds[3].b = << >>
           /\ ((last.kind = "event" /\ last.name = "advertisingStart" /\ last.arg = NoError)
                  => /\ Len(out) = 1
                     /\ out[1].ev = "advertisingStart"
                     /\ out[1].arg = NoError)

\* C9, its case: the three commands were sent and the bindings confirmed
\* advertisingStart without error
C9_Witness ==
    /\ EndToEndCalls
    /\ last.kind = "event"
    /\ last.name = "advertisingStart"
    /\ last.arg = NoError
    /\ delivered = "poweredOn"

\* C10: constructing a Characteristic with a fixed value fails with a
\* ConfigurationError when its properties are anything but exactly [read] and
\* succeeds when they are exactly [read]; without a fixed value it succeeds for
\* every properties list. So a constructed Characteristic with a value has
\* properties = [read].
C10_ValueReadOnly ==
    chr.status # "none"
        => /\ chr.status \in {"ok", "ConfigurationError"}
           /\ chr.properties = orEmpty(chr.options.properties)
           /\ chr.value = chr.options.value
           /\ (chr.status = "ConfigurationError"
                  <=> (chr.options.value # undefined /\ chr.properties # <<"read">>))
           /\ ((chr.status = "ok" /\ chr.value # undefined) => chr.properties = <<"read">>)

\* C10, its case: a value together with read and write was refused
C10_Witness ==
    /\ chr.status = "ConfigurationError"
    /\ chr.value # undefined
    /\ chr.properties = <<"read", "write">>

\* the subscription state of the characteristic
subscription == <<_updateValueCallback, _maxValueSize>>

\* the last event was a request of this name and the application registered
\* a handler for it / no handler for it
Handled(event, handler) == lastEvent = event /\ handler \in chr.callbacks
Unhandled(event, handler) == lastEvent = event /\ handler \notin chr.callbacks

\* the responses the last request got
responses == {i \in 1..Len(trace) : trace[i].what = "respond"}

\* C11: a read request to a characteristic with no read handler, and a write
\* request to one with no write handler, is answered at once by exactly one
\* response, RESULT_UNLIKELY_ERROR (0x0e) with no data, on the callback of the
\* request; neither fails nor changes the subscription state.
C11_UnhandledAnswered ==
    /\ [](Unhandled("readRequest", "onReadRequestCallback")
             => /\ Cardinality(responses) = 1
                /\ trace[2].what = "respond"
                /\ trace[2].name = trace[1].args[2]
                /\ trace[2].args = <<"core", 14, undefined>>)
    /\ [](Unhandled("writeRequest", "onWriteRequestCallback")
             => /\ Cardinality(responses) = 1
                /\ trace[2].what = "respond"
                /\ trace[2].name = trace[1].args[4]
                /\ trace[2].args = <<"core", 14, undefined>>)
    /\ [][lastEvent' \in {"readRequest", "writeRequest"}
             => subscription' = subscription /\ chr' = chr]_vars

\* C11, its case: a subscribed characteristic with a write handler and no read
\* handler answered a read request
C11_Witness ==
    /\ Unhandled("readRequest", "onReadRequestCallback")
    /\ "onWriteRequestCallback" \in chr.callbacks
    /\ _maxValueSize = some(64)
    /\ Len(trace) = 2

\* C12: with a read (write) handler registered, a read (write) request invokes
\* that handler exactly once, with the arguments of the request and its
\* respond callback, and the core itself responds nothing: the responses are
\* the ones the handler gave.
C12_HandlerDecides ==
    /\ (Handled("readRequest", "onReadRequestCallback")
           => /\ Cardinality({i \in 1..Len(trace) : trace[i].what = "invoke"}) = 1
              /\ trace[2] = Invoked("onReadRequestCallback", trace[1].args)
              /\ \A i \in responses : trace[i].args[1] = "handler"
                                         /\ trace[i].name = trace[1].args[2])
    /\ (Handled("writeRequest", "onWriteRequestCallback")
           => /\ Cardinality({i \in 1..Len(trace) : trace[i].what = "invoke"}) = 1
              /\ trace[2] = Invoked("onWriteRequestCallback", trace[1].args)
              /\ \A i \in responses : trace[i].args[1] = "handler"
                                         /\ trace[i].name = trace[1].args[4])

\* C12, its case: the write handler was invoked and responded once
C12_Witness ==
    /\ Handled("writeRequest", "onWriteRequestCallback")
    /\ Cardinality(responses) = 1
    /\ trace[3].args[2] = RESULT_SUCCESS

\* C13: after any sequence of subscribe and unsubscribe events the
\* subscription state is the (maxValueSize, notifier) of the latest subscribe
\* when no unsubscribe came after it and empty otherwise; a second unsubscribe
\* in a row changes nothing.
C13_SubscriptionState ==
    /\ [](lastEvent = "subscribe"
             => /\ _maxValueSize = some(trace[1].args[1])
                /\ _updateValueCallback = some(trace[1].args[2]))
    /\ [](lastEvent = "unsubscribe"
             => _maxValueSize = undefined /\ _updateValueCallback = undefined)
    /\ [][lastEvent' \notin {"subscribe", "unsubscribe"}
             => subscription' = subscription]_vars
    /\ [][(lastEvent = "unsubscribe" /\ lastEvent' = "unsubscribe")
             => subscription' = subscription /\ chr' = chr]_vars

\* C13, its case: two unsubscribe events in a row
C13_Witness ==
    /\ lastEvent = "unsubscribe"
    /\ prev = "unsubscribe"
    /\ "onUnsubscribeCallback" \in chr.callbacks
    /\ subscription = <<undefined, undefined>>

\* C14: the notifier becomes non-empty only by a subscribe event: it is empty
\* after construction; read requests, write requests, notify and indicate
\* leave both subscription fields as they are, and unsubscribe never sets it.
C14_NotifierOnlyBySubscribe ==
    /\ [](trace = << >> => subscription = <<undefined, undefined>>)
    /\ [][(_updateValueCallback' # undefined /\ _updateValueCallback' # _updateValueCallback)
             => lastEvent' = "subscribe"]_vars
    /\ [][lastEvent' \in {"readRequest", "writeRequest", "notify", "indicate"}
             => subscription' = subscription]_vars
    /\ [][lastEvent' = "unsubscribe" => _updateValueCallback' = undefined]_vars

\* C14, its case: a notify event processed after a write request while a
\* notifier is active
C14_Witness ==
    /\ lastEvent = "notify"
    /\ prev = "writeRequest"
    /\ _updateValueCallback = some("notifier2")
    /\ _maxValueSize = some(20)

\* the operation processed last was an accepted startAdvertisingIBeacon
IBeaconSent ==
    /\ last.kind = "call"
    /\ last.name = "startAdvertisingIBeacon"
    /\ last.status # "rejected"

\* C15: for a UUID of n bytes, major and minor in 0..65535 and measuredPower
\* in -128..127, startAdvertisingIBeacon in poweredOn sends the bindings a
\* payload of n+5 bytes: the n bytes of the UUID, major high byte first, minor
\* high byte first, and measuredPower in two's complement. The 16-byte UUID
\* with 100, 200, -59 gives 21 bytes ending 0x00 0x64 0x00 0xC8 0xC5.
C15_IBeaconPayload ==
    IBeaconSent
        => LET hex == SelectSeq(last.arg[1], LAMBDA c : c # "-")
               n == Len(hex) \div 2
               major == last.arg[2]
               minor == last.arg[3]
               measuredPower == last.arg[4]
               payload == cmds[Len(cmds)].a
           IN  /\ cmds[Len(cmds)].op = "startAdvertisingIBeacon"
               /\ major \in 0..65535 /\ minor \in 0..65535 /\ measuredPower \in -128..127
               /\ Len(payload) = n + 5
               /\ \A i \in 1..Len(payload) : payload[i] \in 0..255
               /\ \A i \in 1..n : payload[i] = 16 * hexDigit(hex[2 * i - 1])
                                                  + hexDigit(hex[2 * i])
               /\ 256 * payload[n + 1] + payload[n + 2] = major
               /\ 256 * payload[n + 3] + payload[n + 4] = minor
               /\ payload[n + 5] = IF measuredPower < 0 THEN measuredPower + 256
                                                       ELSE measuredPower
               /\ (last.arg = <<Uuid16, 100, 200, -59>>
                      => /\ Len(payload) = 21
                         /\ SubSeq(payload, 1, 4) = <<185, 64, 127, 48>>
                         /\ SubSeq(payload, 17, 21) = <<0, 100, 0, 200, 197>>)

\* C15, its case: the 16-byte UUID with 100, 200, -59 was sent
C15_Witness ==
    /\ IBeaconSent
    /\ last.arg = <<Uuid16, 100, 200, -59>>
    /\ delivered = "poweredOn"
    /\ Len(cmds[Len(cmds)].a) = 21

\* C16: updateRssi leaves its result pending when it returns; the result is
\* completed only by the rssiUpdate event of the bindings and then carries the
\* value that event reports.
C16_RssiCompletesOnUpdate ==
    /\ [][DelegatedStep({"updateRssi"}) => calls'[Len(calls')].status = "pending"]_vars
    /\ [][\A i \in pendingCalls({"updateRssi"}) :
              IF EventStep({"rssiUpdate"})
                  THEN calls'[i].status = "resolved" /\ calls'[i].val = last'.arg
                  ELSE calls'[i].status = "pending"]_vars

\* the events of the bindings the peripheral passes on, and those it keeps
ReEmitted == {"stateChange", "accept", "disconnect", "mtuChange", "rssiUpdate",
              "advertisingStart", "advertisingStop", "servicesSet"}
NotReEmitted == {"addressChange", "platform"}

\* C17: a stateChange, accept, disconnect, mtuChange, rssiUpdate,
\* advertisingStart, advertisingStop or servicesSet event of the bindings makes
\* the peripheral emit, while it handles the event, exactly one event of the
\* same name with the same payload; addressChange and platform make it emit
\* nothing.
C17_EventsReEmitted ==
    last.kind = "event"
        => /\ last.name \in ReEmitted \cup NotReEmitted
           /\ (last.name \in NotReEmitted => out = << >>)
           /\ (last.name \in ReEmitted
                  => /\ Cardinality({k \in 1..Len(out) : out[k].ev = last.name}) = 1
                     /\ \A k \in 1..Len(out) :
                            out[k].ev = last.name => out[k].arg = last.arg
                     /\ \A k \in 1..Len(out) :
                            out[k].ev \in {last.name, last.name \o "Error"})

\* C17, its case: the bindings reported a signal strength and the peripheral
\* passed it on
C17_Witness ==
    /\ last.kind = "event"
    /\ last.name = "rssiUpdate"
    /\ out = <<Ev("rssiUpdate", -50)>>
    /\ _rssi = -50
    /\ _address # "unknown"

\* a UUID with no dash and no upper-case digit
isNormalized(uuid) ==
    \A i \in 1..Len(uuid) : uuid[i] \notin {"-", "A", "B", "C", "D", "E", "F"}

\* what a UUID the core stores or sends must be: normalized, a fixed point of
\* the normalization, and the same for every spelling
StoredNormalized(uuid) ==
    /\ isNormalized(uuid)
    /\ removeDashes(uuid) = uuid
    /\ uuid = <<"b", "9", "4", "0">>

C19_ResultCodesFixed ==
    /\ [](chr.status = "ok"
             => /\ chr.RESULT.RESULT_ATTR_NOT_LONG = 0
                /\ chr.RESULT.RESULT_INVALID_ATTRIBUTE_LENGTH = 7
                /\ chr.RESULT.RESULT_INVALID_OFFSET = 11
                /\ chr.RESULT.RESULT_SUCCESS = 13
                /\ chr.RESULT.RESULT_UNLIKELY_ERROR = 14
                /\ chr.RESULT.RESULT_ATTR_NOT_LONG = static_RESULT_ATTR_NOT_LONG
                /\ chr.RESULT.RESULT_INVALID_ATTRIBUTE_LENGTH
                       = static_RESULT_INVALID_ATTRIBUTE_LENGTH
                /\ chr.RESULT.RESULT_INVALID_OFFSET = static_RESULT_INVALID_OFFSET
                /\ chr.RESULT.RESULT_SUCCESS = static_RESULT_SUCCESS
                /\ chr.RESULT.RESULT_UNLIKELY_ERROR = static_RESULT_UNLIKELY_ERROR
                /\ Cardinality({chr.RESULT[r] : r \in DOMAIN chr.RESULT}) = 5)
    /\ [][chr.status = "ok" => chr'.RESULT = chr.RESULT]_vars

\* C19, its case: a characteristic that handled events, the last one a write
\* request it answered with its RESULT_UNLIKELY_ERROR
C19_Witness ==
    /\ chr.status = "ok"
    /\ Unhandled("writeRequest", "onWriteRequestCallback")
    /\ prev = "subscribe"
    /\ trace[2].args[2] = chr.RESULT.RESULT_UNLIKELY_ERROR
    /\ DOMAIN chr.RESULT = {"RESULT_ATTR_NOT_LONG", "RESULT_INVALID_ATTRIBUTE_LENGTH",
                            "RESULT_INVALID_OFFSET", "RESULT_SUCCESS",
                            "RESULT_UNLIKELY_ERROR"}

\* the bindings confirmed advertisingStart or servicesSet
Confirmed == last.kind = "event" /\ last.name \in {"advertisingStart", "servicesSet"}

\* C20: for every advertisingStart (servicesSet) confirmation of the bindings
\* the peripheral emits advertisingStartError (servicesSetError) exactly when
\* the confirmation carries an error, and emits it before the base event; the
\* base event is emitted for every confirmation, with the same payload.
C20_ErrorEventBeforeBase ==
    Confirmed
        => /\ out[Len(out)] = Ev(last.name, last.arg)
           /\ Cardinality({k \in 1..Len(out) : out[k].ev = last.name}) = 1
           /\ IF last.arg # NoError
                  THEN /\ Len(out) = 2
                       /\ out[1] = Ev(last.name \o "Error", last.arg)
                  ELSE Len(out) = 1

\* C20, its case: the bindings confirmed servicesSet with an error after a
\* setServices command
C20_Witness ==
    /\ Confirmed
    /\ last.name = "servicesSet"
    /\ last.arg = TransportError
    /\ Len(out) = 2
    /\ \E i \in 1..Len(calls) : calls[i].op = "setServices"

\* C21: when the bindings deliver a state-change event from inside the init
\* command, before init returns, the bindings still receive init exactly once
\* in total.
C21_InitOnceReentrant == delivered # None => initCount = 1

\* C25: every startAdvertising, startAdvertisingIBeacon and
\* startAdvertisingWithEIRData command the bindings receive comes after the
\* init command, also when an application listener sends it in reaction to
\* the very first stateChange(poweredOn).
C25_InitBeforeAdvertising ==
    \A i \in 1..Len(cmds) :
        cmds[i].op \in AdvertisingOps => \E j \in 1..(i - 1) : cmds[j].op = "init"

\* C25, its case: the first state-change event reported poweredOn and the
\* application's listener started advertising from inside it
C25_Witness ==
    /\ last.kind = "event"
    /\ last.name = "stateChange"
    /\ last.arg = "poweredOn"
    /\ Len(cmds) = 2
    /\ cmds[1].op = "init"
    /\ cmds[2].op = "startAdvertising"
    /\ Len(calls) = 1

\* C26: setServices, stopAdvertising, disconnect and updateRssi called before
\* the first state-change event (initialized false, state unknown) are
\* forwarded to the bindings all the same, so the bindings receive them before
\* any init.
C26_ForwardedBeforeInit ==
    [][(CallStep(UngatedOps) /\ delivered = None)
          => /\ ~_initialized
             /\ _state = "unknown"
             /\ last'.status # "rejected"
             /\ Len(cmds') = Len(cmds) + 1
             /\ cmds'[Len(cmds')].op = last'.name
             /\ initCount' = 0]_vars

\* C26, its case: the bindings received disconnect and setServices, and init
\* only after them
C26_Witness ==
    /\ Len(cmds) = 3
    /\ cmds[1].op = "disconnect"
    /\ cmds[2].op = "setServices"
    /\ cmds[3].op = "init"
    /\ calls[2].first

\* C30: mtu, rssi and address are the values of the mtuChange, rssiUpdate and
\* addressChange event processed last, and 20, 0 and "unknown" before the
\* first one; no command and no other event changes them.
C30_FieldsFollowEvents ==
    /\ [](last.kind = "none" => _mtu = 20 /\ _rssi = 0 /\ _address = "unknown")
    /\ [][IF EventStep({"mtuChange"}) THEN _mtu' = last'.arg ELSE _mtu' = _mtu]_vars
    /\ [][IF EventStep({"rssiUpdate"}) THEN _rssi' = last'.arg ELSE _rssi' = _rssi]_vars
    /\ [][IF EventStep({"addressChange"}) THEN _address' = last'.arg
                                           ELSE _address' = _address]_vars

\* C30, its case: the three events were processed, and two commands and a
\* state change after them
C30_Witness ==
    /\ _mtu = 23
    /\ _rssi = -50
    /\ _address = "aa:bb:cc:dd:ee:ff"
    /\ Len(calls) = 2
    /\ last.kind = "event"
    /\ last.name = "stateChange"

\* C27: the two subscription fields are set or cleared together: the notifier
\* is present exactly when the size is, in every state and also in what an
\* application handler finds when the characteristic invokes it.
C27_FieldsTogether ==
    /\ (_updateValueCallback = undefined <=> _maxValueSize = undefined)
    /\ (seen # << >> => (seen[1] = undefined <=> seen[2] = undefined))

\* C27, its case: the application's subscribe handler ran on a subscribe that
\* followed an unsubscribe
C27_Witness ==
    /\ lastEvent = "subscribe"
    /\ prev = "unsubscribe"
    /\ seen = <<some("notifier1"), some(64)>>

\* C28: on subscribe the characteristic records size and notifier and only
\* then invokes the application's subscribe handler, once, with the same size
\* and notifier; on unsubscribe it clears both and only then invokes the
\* unsubscribe handler; with no handler registered only the fields change.
C28_RecordThenInvoke ==
    /\ lastEvent = "subscribe"
          => /\ subscription = <<some(trace[1].args[2]), some(trace[1].args[1])>>
             /\ IF "onSubscribeCallback" \in chr.callbacks
                    THEN /\ Len(trace) = 2
                         /\ trace[2] = Invoked("onSubscribeCallback", trace[1].args)
                         /\ seen = subscription
                    ELSE Len(trace) = 1 /\ seen = << >>
    /\ lastEvent = "unsubscribe"
          => /\ subscription = <<undefined, undefined>>
             /\ IF "onUnsubscribeCallback" \in chr.callbacks
                    THEN /\ Len(trace) = 2
                         /\ trace[2] = Invoked("onUnsubscribeCallback", << >>)
                         /\ seen = <<undefined, undefined>>
                    ELSE Len(trace) = 1 /\ seen = << >>

\* C28, its case: a second subscribe, with another size and notifier, reached
\* the application's subscribe handler
C28_Witness ==
    /\ lastEvent = "subscribe"
    /\ prev = "subscribe"
    /\ Len(trace) = 2
    /\ seen = <<some("notifier2"), some(20)>>

\* the step is an unsubscribe event processed while nothing is subscribed
UnsubscribeUnsubscribed ==
    /\ chr.status = "ok"
    /\ subscription = <<undefined, undefined>>
    /\ lastEvent' = "unsubscribe"

\* C29: an unsubscribe event received while there is no active subscription
\* changes no state and does not invoke the application's unsubscribe
\* handler.
C29_UnsubscribeNoOp ==
    [][UnsubscribeUnsubscribed
          => /\ subscription' = subscription
             /\ chr' = chr
             /\ \A i \in 1..Len(trace') : trace'[i].what # "invoke"]_vars

\* C29 amended: an unsubscribe event received while there is no active
\* subscription changes no field of the characteristic; the application's
\* unsubscribe handler, when one is registered, is still invoked once.
C29_UnsubscribeKeepsState ==
    [][UnsubscribeUnsubscribed
          => /\ subscription' = subscription
             /\ chr' = chr
             /\ IF "onUnsubscribeCallback" \in chr.callbacks
                    THEN /\ Len(trace') = 2
                         /\ trace'[2] = Invoked("onUnsubscribeCallback", << >>)
                    ELSE Len(trace') = 1]_vars

\* C29, its case: the first event of a characteristic with an unsubscribe
\* handler is an unsubscribe
C29_Witness ==
    /\ lastEvent = "unsubscribe"
    /\ prev = None
    /\ "onUnsubscribeCallback" \in chr.callbacks
    /\ Len(trace) = 2

\* the call has a result to complete: the promise of an async method, or the
\* callback the application passed
awaited(c) == class = "OSKBLEPeripheral" \/ c.cb

\* the step accepted a call of one of the given commands, sent its command to
\* the bindings, and the caller waits for the result
AcceptedStep(ops) ==
    /\ CallStep(ops)
    /\ cmds' # cmds
    /\ Len(calls') = Len(calls) + 1
    /\ awaited(calls'[Len(calls')])

\* C22: an advertising command accepted in poweredOn and delegated leaves a
\* pending waiter that nothing cancels: it stays pending, unchanged, across
\* every stateChange (also to a state other than poweredOn), accept, disconnect,
\* mtuChange, rssiUpdate, advertisingStop and servicesSet event and across
\* every other call, and the next advertisingStart event completes it, once,
\* with the event's payload, whatever the power state is at that moment.
C22_WaiterNotCancelled ==
    /\ [][AcceptedStep(AdvertisingOps) => calls'[Len(calls')].status = "pending"]_vars
    /\ [][\A i \in pendingCalls(AdvertisingOps) :
              IF EventStep({"advertisingStart"})
                  THEN /\ calls'[i].status
                              = IF last'.arg = NoError THEN "resolved" ELSE "rejected"
                       /\ calls'[i].err = last'.arg
                       /\ calls'[i].n = 1
                  ELSE calls'[i] = calls[i]]_vars

\* an accepted advertising command was completed by an advertisingStart event
\* that arrived when the state was no longer poweredOn
C22_Witness ==
    /\ last.kind = "event"
    /\ last.name = "advertisingStart"
    /\ _state # "poweredOn"
    /\ \E i \in 1..Len(calls) :
           /\ calls[i].op \in AdvertisingOps
           /\ calls[i].cb
           /\ calls[i].n = 1
           /\ calls[i].status = "resolved"

\* the confirmation event a command's callback waits for
confirmationOf(op) ==
    CASE op \in AdvertisingOps -> "advertisingStart"
      [] op = "stopAdvertising" -> "advertisingStop"
      [] op = "setServices" -> "servicesSet"
      [] op = "updateRssi" -> "rssiUpdate"

Commands == AdvertisingOps \cup {"stopAdvertising", "setServices", "updateRssi"}

\* C23: in the callback-style peripheral every accepted call that passes a
\* callback registers exactly one waiter, for its confirmation event only; the
\* number of advertisingStart waiters is the number of advertising calls with a
\* callback accepted since the last advertisingStart event; an advertisingStart
\* event completes every waiter pending at that moment, of whatever advertising
\* kind, with its payload, and leaves none, so that a confirmation that follows
\* with no new call in between completes nothing.
C23_OneWaiterPerCall ==
    /\ [][AcceptedStep(Commands) =>
              LET i == Len(calls')
              IN  \A e \in EventNames :
                      Cardinality({k \in 1..Len(listeners'[e]) : listeners'[e][k] = i})
                          = IF e = confirmationOf(calls'[i].op) THEN 1 ELSE 0]_vars
    /\ [][Len(listeners'["advertisingStart"])
              = IF EventStep({"advertisingStart"}) THEN 0
                ELSE IF AcceptedStep(AdvertisingOps)
                         THEN Len(listeners["advertisingStart"]) + 1
                         ELSE Len(listeners["advertisingStart"])]_vars
    /\ [](Len(listeners["advertisingStart"])
              = Cardinality(pendingCalls(AdvertisingOps)))
    /\ [][EventStep({"advertisingStart"}) =>
              \A i \in 1..Len(calls) :
                  IF i \in pendingCalls(AdvertisingOps)
                      THEN /\ calls'[i].n = 1
                           /\ calls'[i].err = last'.arg
                           /\ calls'[i].status
                                  = IF last'.arg = NoError THEN "resolved"
                                                           ELSE "rejected"
                      ELSE calls'[i] = calls[i]]_vars

\* two overlapping advertising calls of different kinds were both completed by
\* one advertisingStart event, with the error it carried
C23_Witness ==
    /\ class = "BLEPeripheral"
    /\ last.kind = "event"
    /\ last.name = "advertisingStart"
    /\ last.arg # NoError
    /\ Len(calls) = 2
    /\ calls[1].op \in AdvertisingOps
    /\ calls[2].op \in AdvertisingOps
    /\ calls[1].op # calls[2].op
    /\ \A i \in 1..2 : /\ calls[i].cb
                       /\ calls[i].n = 1
                       /\ calls[i].status = "rejected"
                       /\ calls[i].err = last.arg
    /\ listeners["advertisingStart"] = << >>

\* the calls whose callback got the refusal
refusedCalls ==
    {i \in 1..Len(calls) : /\ calls[i].op \in AdvertisingOps
                           /\ calls[i].status = "rejected"
                           /\ calls[i].err = NotReady}

\* C24: in the callback-style peripheral the callback passed to one call of an
\* advertising command, stopAdvertising, setServices or updateRssi is invoked
\* at most once, whatever events follow: once it has run, no later step runs
\* it again.  An advertising command called in a state other than poweredOn
\* sends nothing and registers no waiter; when it was given a callback, the
\* callback has received the error by the time the call returns, and a later
\* advertisingStart event does not invoke it again.
C24_CallbackAtMostOnce ==
    /\ [](\A i \in 1..Len(calls) : calls[i].n <= 1)
    /\ [][\A i \in 1..Len(calls) : calls[i].n = 1 => calls'[i] = calls[i]]_vars
    /\ [][(CallStep(AdvertisingOps) /\ _state # "poweredOn") =>
              /\ cmds' = cmds
              /\ listeners' = listeners
              /\ IF last'.status = "refused"
                     THEN /\ Len(calls') = Len(calls) + 1
                          /\ calls'[Len(calls')].cb
                          /\ calls'[Len(calls')].n = 1
                          /\ calls'[Len(calls')].err = NotReady
                          /\ last'.err = NotReady
                     ELSE /\ last'.status = "rejected"
                          /\ calls' = calls]_vars
    /\ [](\A i \in refusedCalls : \A e \in EventNames : registered(e, i) = 0)

\* a refused advertising call whose callback got the error, followed by an
\* accepted one that an advertisingStart event has just completed: the refused
\* call's callback has still run once
C24_Witness ==
    /\ class = "BLEPeripheral"
    /\ last.kind = "event"
    /\ last.name = "advertisingStart"
    /\ last.arg = NoError
    /\ \E i, j \in 1..Len(calls) :
           /\ i < j
           /\ i \in refusedCalls
           /\ calls[i].n = 1
           /\ calls[j].op \in AdvertisingOps
           /\ calls[j].status = "resolved"
           /\ calls[j].n = 1

\* C31: the power state starts at unknown; in every reachable state, whatever
\* the power state is, a state-change event to each of the six states is
\* possible and moves the peripheral to that state (so no state is terminal and
\* unknown can be entered again); a state-change event is never refused or
\* ignored: the state after it is the state it carried, and the event is passed
\* on to the application.
C31_AnyStateFromAnyState ==
    /\ [](last.kind = "none" => _state = "unknown")
    /\ [](_state \in OSKBLEState)
    /\ [](\A state \in OSKBLEState :
              ENABLED (_onStateChange(state) /\ _state' = state))
    /\ [][EventStep({"stateChange"}) =>
              /\ _state' = last'.arg
              /\ delivered' = last'.arg
              /\ out' = <<Ev("stateChange", last'.arg)>>]_vars

\* the peripheral was poweredOn (it accepted an advertising command) and a
\* state-change event has taken it back to unknown
C31_Witness ==
    /\ class = "OSKBLEPeripheral"
    /\ last.kind = "event"
    /\ last.name = "stateChange"
    /\ last.arg = "unknown"
    /\ _state = "unknown"
    /\ \E i \in 1..Len(calls) : calls[i].op \in AdvertisingOps

====
